---- MODULE Spec2Model ----
(***************************************************************************)
(* Model of src/app.py, the Streamlit weather dashboard.                   *)
(*                                                                         *)
(* The program is one script that Streamlit re-executes from top to bottom *)
(* on every user interaction of a session.  The state that survives a run  *)
(* is st.session_state (historical_data, forecast_temp, forecast_precip,   *)
(* chat_history) and the values of the widgets (the question text box, the *)
(* map drawing).  One run is modelled as the steps the script goes through *)
(* in source order:                                                        *)
(*                                                                         *)
(*   idle --interaction (and the Fetch button's on_click callback)-->      *)
(*   chat     lines 247-262  the chatbot section                           *)
(*   display  lines 264-270  the chat history widgets                      *)
(*   buttons  lines 287-332  the button section / Predict handler          *)
(*   done     the run is over, its notices are on the page                 *)
(*   idle                                                                  *)
(*                                                                         *)
(* Runs of one session do not overlap (spec section 5).                    *)
(*                                                                         *)
(* Abstractions.  A date is a day number counted from the requested        *)
(* start_date.  A cell of the table is "val" (a number) or "NaN".  Prophet *)
(* is modelled by what the handler relies on: fit raises on fewer than two *)
(* non-NaN rows, make_future_dataframe returns the sorted distinct         *)
(* training dates followed by the next `periods` days, predict returns one *)
(* row per date of its argument.  Any call into Prophet may also raise for *)
(* a numerical reason.  Each DataFrame fetched is a new object: it gets an *)
(* identity `id` that no object still referred to has, and a forecast      *)
(* remembers in `src` the identity of the table it was fitted on.          *)
(***************************************************************************)
EXTENDS Integers, Sequences, FiniteSets, TLC

\* ---------------------------------------------------------------- bounds
\* Largest number of rows in a table the provider returns.
MaxRows == 2
\* Number of question/answer exchanges recorded in a session.
MaxExchanges == 2

\* ------------------------------------------------------------- constants
\* periods=30 in make_future_dataframe
Horizon == 30

\* Python's None: a record that equals no table, forecast or prompt
None == [none |-> TRUE]

VARIABLES
    historical_data,   \* st.session_state.historical_data: None or a table
    forecast_temp,     \* st.session_state.forecast_temp: None or a forecast
    forecast_precip,   \* st.session_state.forecast_precip: None or a forecast
    chat_history,      \* st.session_state.chat_history
    user_input,        \* value of the sidebar text box
    drawing,           \* map_data.get("last_active_drawing") is truthy
    clicked,           \* the button whose value is True in the current run
    notice,            \* the last st.warning / st.error / exception of the run
    prompt,            \* the prompt sent to the Gemini API in the current run
    pc                 \* position of the script run

vars == <<historical_data, forecast_temp, forecast_precip, chat_history,
          user_input, drawing, clicked, notice, prompt, pc>>

store == <<historical_data, forecast_temp, forecast_precip>>

\* ------------------------------------------------------------------ text
UpperCase == <<"A","B","C","D","E","F","G","H","I","J","K","L","M",
               "N","O","P","Q","R","S","T","U","V","W","X","Y","Z">>
LowerCase == <<"a","b","c","d","e","f","g","h","i","j","k","l","m",
               "n","o","p","q","r","s","t","u","v","w","x","y","z">>

\* str.lower() of one character
LowerChar(c) ==
    IF \E i \in 1..26 : UpperCase[i] = c
    THEN LowerCase[CHOOSE i \in 1..26 : UpperCase[i] = c]
    ELSE c

\* str.lower()
Lower(s) == [i \in 1..Len(s) |-> LowerChar(s[i])]

\* Python's `sub in s` on strings
Contains(sub, s) ==
    \E i \in 1..(Len(s) - Len(sub) + 1) : SubSeq(s, i, i + Len(sub) - 1) = sub

Forecast_kw == <<"f","o","r","e","c","a","s","t">>

\* The questions typed in the model.
QForecast == <<"F","o","r","e","C","A","S","T","?">>
QTemperature == <<"T","e","m","p","e","r","a","t","u","r","e","?">>
Questions == {QForecast, QTemperature}

\* ---------------------------------------------------------------- tables
Cells == {"val", "NaN"}

Rows == [time : 0..(MaxRows - 1), temperature_2m_max : Cells, precipitation_sum : Cells]

\* The NaN cells of a column come after its numbers.
NaNsLast(t, col) ==
    \A i, j \in 1..Len(t) : (i < j /\ t[i][col] = "NaN") => t[j][col] = "NaN"

\* What pd.DataFrame(response.json()["daily"]) can be: the rows of the
\* requested range in date order starting at start_date, possibly none,
\* possibly with a date repeated.  The code checks nothing about it.  The
\* script reads a column only through the number of its non-NaN cells, so
\* the tables are listed with the NaN cells of each column at its end.
ProviderTables ==
    {t \in UNION {[1..n -> Rows] : n \in 0..MaxRows} :
        /\ Len(t) > 0 => t[1].time = 0
        /\ \A i \in 1..(Len(t) - 1) : t[i+1].time - t[i].time \in {0, 1}
        /\ NaNsLast(t, "temperature_2m_max")
        /\ NaNsLast(t, "precipitation_sum")}

\* ---------------------------------------------------------------- Prophet
\* Number of rows Prophet.fit keeps: df[df['y'].notnull()]
NonNull(rows, col) == Cardinality({i \in 1..Len(rows) : rows[i][col] /= "NaN"})

\* Prophet.fit raises ValueError('Dataframe has less than 2 non-NaN rows.')
FitRaises(rows, col) == NonNull(rows, col) < 2

\* The ascending sequence of the elements of a finite set of integers.
RECURSIVE SortedSeq(_)
SortedSeq(S) ==
    IF S = {} THEN <<>>
    ELSE LET m == CHOOSE x \in S : \A y \in S : x <= y
         IN <<m>> \o SortedSeq(S \ {m})

\* model.history_dates: the distinct values of df['ds'], sorted
history_dates(rows) == SortedSeq({rows[i].time : i \in 1..Len(rows)})

\* model.make_future_dataframe(periods): history dates, then the next days
make_future_dataframe(rows, periods) ==
    LET h == history_dates(rows)
        last == h[Len(h)]
    IN h \o [k \in 1..periods |-> last + k]

\* model.predict(future): one forecast row per row of `future`
predict(hist, col, future) == [src |-> hist.id, y |-> col, ds |-> future]

\* ---------------------------------------------------------------- chatbot
\* get_data_summary(): the sections of the digest
get_data_summary ==
    LET h == IF historical_data /= None THEN <<"Historical Weather Data:">> ELSE <<>>
        t == IF forecast_temp /= None THEN <<"Temperature Forecast:">> ELSE <<>>
        p == IF forecast_precip /= None THEN <<"Precipitation Forecast:">> ELSE <<>>
    IN IF h \o t \o p = <<>> THEN <<"No data available">> ELSE h \o t \o p

\* What model.generate_content(prompt) does: returns a text or raises.
GeminiOutcomes == {[ok |-> TRUE, text |-> <<"a","n","s","w","e","r">>],
                   [ok |-> FALSE, text |-> <<"A","P","I"," ","k","e","y">>]}

\* get_chatbot_response(user_input), given the outcome of the API call
get_chatbot_response(o) ==
    IF o.ok THEN o.text ELSE <<"E","r","r","o","r",":"," ">> \o o.text

\* key= of the text_area widget that displays a chat message
WidgetKey(m) == <<m.role>> \o m.content

\* ------------------------------------------------------------------ Init
Init ==
    /\ historical_data = None
    /\ forecast_temp = None
    /\ forecast_precip = None
    /\ chat_history = <<>>
    /\ user_input = <<>>
    /\ drawing = FALSE
    /\ clicked = "none"
    /\ notice = "none"
    /\ prompt = None
    /\ pc = "idle"

\* A run that would record an exchange starts only below the model's bound.
CanRun(q) == q = <<>> \/ Len(chat_history) < 2 * MaxExchanges

\* Start of a run of the script body.
StartRun(button) ==
    /\ clicked' = button
    /\ notice' = "none"
    /\ prompt' = None
    /\ pc' = "chat"

\* ------------------------------------------------ interactions (pc = idle)
\* The user draws a rectangle on the map; the script reruns.
DrawRectangle ==
    /\ pc = "idle"
    /\ CanRun(user_input)
    /\ drawing' = TRUE
    /\ StartRun("none")
    /\ UNCHANGED <<store, chat_history, user_input>>

\* The user changes the text of the question box; the script reruns.
ChangeText(q) ==
    /\ pc = "idle"
    /\ q /= user_input
    /\ CanRun(q)
    /\ user_input' = q
    /\ StartRun("none")
    /\ UNCHANGED <<store, chat_history, drawing>>

\* Identities of the tables the session state still refers to.
UsedIds ==
    {x.id : x \in {historical_data} \ {None}}
        \cup {f.src : f \in {forecast_temp, forecast_precip} \ {None}}

\* The identity of a newly created DataFrame: the first one not in use.
FreshId ==
    CHOOSE i \in 1..(Cardinality(UsedIds) + 1) :
        i \notin UsedIds /\ \A j \in 1..(i - 1) : j \in UsedIds

\* Variant of FetchOk: the update forgets "forecast_precip": None.
FetchOk_KeepsPrecip(t) ==
    /\ pc = "idle"
    /\ drawing
    /\ CanRun(user_input)
    /\ historical_data' = [id |-> FreshId, rows |-> t]
    /\ forecast_temp' = None
    /\ StartRun("fetch")
    /\ UNCHANGED <<forecast_precip, chat_history, user_input, drawing>>

\* Variant of FetchOk: the update replaces only "historical_data".
FetchOk_KeepsForecasts(t) ==
    /\ pc = "idle"
    /\ drawing
    /\ CanRun(user_input)
    /\ historical_data' = [id |-> FreshId, rows |-> t]
    /\ StartRun("fetch")
    /\ UNCHANGED <<forecast_temp, forecast_precip, chat_history, user_input, drawing>>

\* Fetch button, on_click callback: fetch_weather_data returned table t.
\* st.session_state.update replaces the table and resets both forecasts,
\* then the script body runs.
FetchOk(t) ==
    /\ pc = "idle"
    /\ drawing
    /\ CanRun(user_input)
    /\ historical_data' = [id |-> FreshId, rows |-> t]
    /\ forecast_temp' = None
    /\ forecast_precip' = None
    /\ StartRun("fetch")
    /\ UNCHANGED <<chat_history, user_input, drawing>>

\* Fetch button, on_click callback: fetch_weather_data raised (network
\* error, no "daily" key in the reply).  The dict passed to update is never
\* built; the uncaught exception ends the run before the script body.
FetchRaises ==
    /\ pc = "idle"
    /\ drawing
    /\ clicked' = "fetch"
    /\ notice' = "fetch exception"
    /\ prompt' = None
    /\ pc' = "done"
    /\ UNCHANGED <<store, chat_history, user_input, drawing>>

\* The user clicks "Predict Next 30 Days"; the script reruns.
ClickPredict ==
    /\ pc = "idle"
    /\ drawing
    /\ CanRun(user_input)
    /\ StartRun("predict")
    /\ UNCHANGED <<store, chat_history, user_input, drawing>>

\* ------------------------------------------- chatbot section (pc = chat)
\* `if user_input:` is false
ChatNoInput ==
    /\ pc = "chat"
    /\ user_input = <<>>
    /\ pc' = "display"
    /\ UNCHANGED <<store, chat_history, user_input, drawing, clicked, notice,
                   prompt>>

\* the guard of line 249
MustLoadFirst == historical_data = None /\ ~Contains(Forecast_kw, Lower(user_input))

\* st.sidebar.warning("Please load historical data first!")
ChatWarn ==
    /\ pc = "chat"
    /\ user_input /= <<>>
    /\ MustLoadFirst
    /\ notice' = "Please load historical data first!"
    /\ pc' = "display"
    /\ UNCHANGED <<store, chat_history, user_input, drawing, clicked, prompt>>

\* Variant of ChatAnswer: a question drops the stored forecasts.
ChatAnswer_DropsForecasts ==
    /\ pc = "chat"
    /\ user_input /= <<>>
    /\ ~MustLoadFirst
    /\ \E o \in GeminiOutcomes :
          chat_history' = chat_history
              \o <<[role |-> "user", content |-> user_input],
                   [role |-> "assistant", content |-> get_chatbot_response(o)]>>
    /\ prompt' = [summary |-> get_data_summary, question |-> user_input]
    /\ forecast_temp' = None
    /\ forecast_precip' = None
    /\ pc' = "display"
    /\ UNCHANGED <<historical_data, user_input, drawing, clicked, notice>>

\* Variant of ChatAnswer: when the API call fails only the question is
\* recorded.
ChatAnswer_DropsError ==
    /\ pc = "chat"
    /\ user_input /= <<>>
    /\ ~MustLoadFirst
    /\ \E o \in GeminiOutcomes :
          chat_history' = chat_history
              \o <<[role |-> "user", content |-> user_input]>>
              \o (IF o.ok
                  THEN <<[role |-> "assistant", content |-> get_chatbot_response(o)]>>
                  ELSE <<>>)
    /\ prompt' = [summary |-> get_data_summary, question |-> user_input]
    /\ pc' = "display"
    /\ UNCHANGED <<store, user_input, drawing, clicked, notice>>

\* The else branch: the question goes to the Gemini API with the data
\* summary; the question and the reply (or the error text) are recorded.
ChatAnswer ==
    /\ pc = "chat"
    /\ user_input /= <<>>
    /\ ~MustLoadFirst
    /\ \E o \in GeminiOutcomes :
          chat_history' = chat_history
              \o <<[role |-> "user", content |-> user_input],
                   [role |-> "assistant", content |-> get_chatbot_response(o)]>>
    /\ prompt' = [summary |-> get_data_summary, question |-> user_input]
    /\ pc' = "display"
    /\ UNCHANGED <<store, user_input, drawing, clicked, notice>>

\* ------------------------------------- chat history display (pc = display)
\* Two text_area widgets with the same key raise DuplicateWidgetID.
DuplicateKeys ==
    \E i, j \in 1..Len(chat_history) :
        i < j /\ WidgetKey(chat_history[i]) = WidgetKey(chat_history[j])

DisplayChat ==
    /\ pc = "display"
    /\ ~DuplicateKeys
    /\ pc' = "buttons"
    /\ UNCHANGED <<store, chat_history, user_input, drawing, clicked, notice,
                   prompt>>

\* The uncaught exception ends the run before the button section.
DisplayRaises ==
    /\ pc = "display"
    /\ DuplicateKeys
    /\ notice' = "DuplicateWidgetID"
    /\ pc' = "done"
    /\ UNCHANGED <<store, chat_history, user_input, drawing, clicked, prompt>>

\* --------------------------------------- button section (pc = buttons)
\* No drawing (line 287 false), or the buttons are drawn and Predict was
\* not the button clicked.
NoPredict ==
    /\ pc = "buttons"
    /\ ~drawing \/ clicked /= "predict"
    /\ pc' = "done"
    /\ UNCHANGED <<store, chat_history, user_input, drawing, clicked, notice,
                   prompt>>

PredictClicked == pc = "buttons" /\ drawing /\ clicked = "predict"

\* Variant of PredictWarn: no `is not None` test, so the try block raises on
\* None and the except branch reports it.
PredictWarn_NoTest ==
    /\ PredictClicked
    /\ historical_data = None
    /\ notice' = "Prediction failed"
    /\ pc' = "done"
    /\ UNCHANGED <<store, chat_history, user_input, drawing, clicked, prompt>>

\* st.warning("Please fetch historical data first!")
PredictWarn ==
    /\ PredictClicked
    /\ historical_data = None
    /\ notice' = "Please fetch historical data first!"
    /\ pc' = "done"
    /\ UNCHANGED <<store, chat_history, user_input, drawing, clicked, prompt>>

\* Both fits succeed only on two or more non-NaN rows of their column.
BothFit ==
    /\ ~FitRaises(historical_data.rows, "temperature_2m_max")
    /\ ~FitRaises(historical_data.rows, "precipitation_sum")

\* An exception before line 326 (model_temp.fit, model_precip.fit,
\* make_future_dataframe or model_temp.predict): nothing was assigned.
PredictRaisesEarly ==
    /\ PredictClicked
    /\ historical_data /= None
    /\ notice' = "Prediction failed"
    /\ pc' = "done"
    /\ UNCHANGED <<store, chat_history, user_input, drawing, clicked, prompt>>

\* Variant of PredictRaisesLate: the temperature forecast is stored before
\* the precipitation model is fitted.
PredictRaisesLate_StoresBeforeFit ==
    /\ PredictClicked
    /\ historical_data /= None
    /\ ~FitRaises(historical_data.rows, "temperature_2m_max")
    /\ forecast_temp' = predict(historical_data, "temperature_2m_max",
                                make_future_dataframe(historical_data.rows, Horizon))
    /\ notice' = "Prediction failed"
    /\ pc' = "done"
    /\ UNCHANGED <<historical_data, forecast_precip, chat_history, user_input,
                   drawing, clicked, prompt>>

\* model_precip.predict raises on line 327: line 326 has already assigned
\* st.session_state.forecast_temp.
PredictRaisesLate ==
    /\ PredictClicked
    /\ historical_data /= None
    /\ BothFit
    /\ forecast_temp' = predict(historical_data, "temperature_2m_max",
                                make_future_dataframe(historical_data.rows, Horizon))
    /\ notice' = "Prediction failed"
    /\ pc' = "done"
    /\ UNCHANGED <<historical_data, forecast_precip, chat_history, user_input,
                   drawing, clicked, prompt>>

\* The try block runs to its end.
PredictOk ==
    /\ PredictClicked
    /\ historical_data /= None
    /\ BothFit
    /\ LET future == make_future_dataframe(historical_data.rows, Horizon)
       IN /\ forecast_temp' = predict(historical_data, "temperature_2m_max", future)
          /\ forecast_precip' = predict(historical_data, "precipitation_sum", future)
    /\ pc' = "done"
    /\ UNCHANGED <<historical_data, chat_history, user_input, drawing, clicked,
                   notice, prompt>>

\* The run is over: the button values are False again, the local variables
\* are gone and the next run starts from a cleared page.
EndRun ==
    /\ pc = "done"
    /\ clicked' = "none"
    /\ notice' = "none"
    /\ prompt' = None
    /\ pc' = "idle"
    /\ UNCHANGED <<store, chat_history, user_input, drawing>>

Next ==
    \/ DrawRectangle
    \/ \E q \in Questions \cup {<<>>} : ChangeText(q)
    \/ \E t \in ProviderTables : FetchOk(t)
    \/ FetchRaises
    \/ ClickPredict
    \/ ChatNoInput
    \/ ChatWarn
    \/ ChatAnswer
    \/ DisplayChat
    \/ DisplayRaises
    \/ NoPredict
    \/ PredictWarn
    \/ PredictRaisesEarly
    \/ PredictRaisesLate
    \/ PredictOk
    \/ EndRun

Spec == Init /\ [][Next]_vars

\* ================================================================ claims
Present(f) == f /= None

\* A fetch replaced the table and the script body has just started.
JustFetched == pc = "chat" /\ clicked = "fetch"

\* C1: right after a fetch that replaced historical_data, forecast_temp and
\* forecast_precip are both None, whatever they held before.
C1_FetchClearsForecasts ==
    JustFetched => (historical_data /= None /\ forecast_temp = None /\ forecast_precip = None)

\* The second table of the session has just been stored.
C1_Witness == JustFetched /\ historical_data /= None /\ historical_data.id = 2

\* C2: every stored forecast was computed from the table that is stored now.
C2_ForecastsFromCurrentTable ==
    \A f \in {forecast_temp, forecast_precip} :
        Present(f) => (historical_data /= None /\ f.src = historical_data.id)

\* Forecasts of the second table of the session are stored.
C2_Witness ==
    /\ Present(forecast_temp) /\ Present(forecast_precip)
    /\ forecast_precip.src = 2

\* C3: a forecast is stored only while a table is stored, and Predict with no
\* table shows the warning and stores nothing.
C3_ForecastNeedsTable ==
    /\ []((Present(forecast_temp) \/ Present(forecast_precip)) => historical_data /= None)
    /\ [][(PredictClicked /\ historical_data = None) =>
            (notice' = "Please fetch historical data first!" /\ UNCHANGED store)]_vars

\* Predict was clicked with no table and the handler has answered.
C3_Witness ==
    /\ pc = "done" /\ clicked = "predict" /\ historical_data = None
    /\ notice = "Please fetch historical data first!"

\* A fetch or predict step that raised.
RaisingStep ==
    \/ pc = "idle" /\ clicked' = "fetch" /\ notice' = "fetch exception"
    \/ pc = "buttons" /\ notice' = "Prediction failed"

\* C4: a fetch or predict that raises, at whatever step, leaves
\* historical_data, forecast_temp and forecast_precip as they were.
C4_FailureLeavesStore == [][RaisingStep => UNCHANGED store]_vars

\* Dates of the stored table are pairwise distinct.
UniqueDates(rows) ==
    \A i, j \in 1..Len(rows) : i /= j => rows[i].time /= rows[j].time

\* C5: historical_data is None or a non-empty table with distinct dates.
C5_TableNonEmptyUnique ==
    historical_data /= None =>
        (Len(historical_data.rows) > 0 /\ UniqueDates(historical_data.rows))

\* The Predict handler has run its try block to the end.
PredictSucceeded ==
    /\ pc = "done" /\ clicked = "predict" /\ notice = "none"
    /\ drawing /\ historical_data /= None

\* One point per day from the first date through the last date + horizon.
DailyRange(rows, horizon) ==
    [k \in 1..(rows[Len(rows)].time - rows[1].time + 1 + horizon) |->
        rows[1].time + k - 1]

\* C6: after a successful predict each forecast has len(historical) + 30
\* points, one per day from the first historical date through the last + 30.
C6_ForecastCoversRange ==
    PredictSucceeded =>
        \A f \in {forecast_temp, forecast_precip} :
            /\ Present(f)
            /\ Len(f.ds) = Len(historical_data.rows) + Horizon
            /\ f.ds = DailyRange(historical_data.rows, Horizon)

\* C7: the chatbot section never changes historical_data, forecast_temp or
\* forecast_precip, whatever the question and the state.
C7_ChatReadOnly == [][pc = "chat" => UNCHANGED store]_vars

\* A question was answered while a forecast was stored.
C7_Witness == pc = "display" /\ prompt /= None /\ Present(forecast_temp)

\* The keyword table of route_intent, in priority order.
RouteIntent(q) ==
    LET has(w) == Contains(w, Lower(q))
    IN IF has(<<"t","e","m","p">>) THEN "temperature"
       ELSE IF has(<<"p","r","e","c","i","p">>) \/ has(<<"r","a","i","n">>) THEN "precipitation"
       ELSE IF has(<<"w","i","n","d">>) THEN "wind"
       ELSE IF has(Forecast_kw) THEN "forecast"
       ELSE "Unmatched"

\* The chatbot section took the else branch of line 249 in this run.
Answered ==
    /\ pc = "display" /\ user_input /= <<>>
    /\ notice /= "Please load historical data first!"

\* C8: an answered question goes to the external mechanism exactly when no
\* keyword pattern matches it; a matched question is answered from the store.
C8_KeywordRouting ==
    Answered => ((prompt /= None) <=> (RouteIntent(user_input) = "Unmatched"))

\* Fewer than two non-missing values of one of the two forecast variables.
Insufficient ==
    \/ NonNull(historical_data.rows, "temperature_2m_max") < 2
    \/ NonNull(historical_data.rows, "precipitation_sum") < 2

\* C9: Predict on a table with fewer than two non-missing values of either
\* variable fails with an error and leaves both forecasts as they were.
C9_InsufficientDataFails ==
    [][(PredictClicked /\ historical_data /= None /\ Insufficient) =>
         (notice' = "Prediction failed" /\ UNCHANGED <<forecast_temp, forecast_precip>>)]_vars

\* Predict failed on a table whose temperature column fits and whose
\* precipitation column does not.
C9_Witness ==
    /\ pc = "done" /\ clicked = "predict" /\ notice = "Prediction failed"
    /\ historical_data /= None
    /\ NonNull(historical_data.rows, "temperature_2m_max") >= 2
    /\ NonNull(historical_data.rows, "precipitation_sum") < 2

\* chat_history is a sequence of (user, assistant) pairs.
ChatAlternates ==
    /\ Len(chat_history) % 2 = 0
    /\ \A i \in 1..Len(chat_history) :
        chat_history[i].role = (IF i % 2 = 1 THEN "user" ELSE "assistant")

\* The question is answered: there is one, and a table is loaded or the
\* question contains "forecast" in any case.
MayAnswer ==
    /\ user_input /= <<>>
    /\ historical_data /= None \/ Contains(Forecast_kw, Lower(user_input))

\* What a step does to chat_history.
ChatStep ==
    IF pc = "chat" /\ MayAnswer
    THEN /\ Len(chat_history') = Len(chat_history) + 2
         /\ SubSeq(chat_history', 1, Len(chat_history)) = chat_history
         /\ chat_history'[Len(chat_history) + 1] = [role |-> "user", content |-> user_input]
         /\ chat_history'[Len(chat_history) + 2].role = "assistant"
    ELSE chat_history' = chat_history

\* C10: a question is recorded only when a table is loaded or it contains
\* "forecast"; it then adds one user entry followed by one assistant entry,
\* also when the API call fails; so chat_history always alternates.
C10_ChatRecordsPairs == []ChatAlternates /\ [][ChatStep]_vars

\* With no table loaded, a "forecast" question was recorded with the error
\* text of a failed API call.
C10_Witness ==
    /\ historical_data = None
    /\ Len(chat_history) = 2
    /\ chat_history[1].content = QForecast
    /\ SubSeq(chat_history[2].content, 1, 6) = <<"E","r","r","o","r",":">>
====
